---------------------------- MODULE Spec2Model ----------------------------
(***************************************************************************)
(* A model of the hardened physics-based challenge-response engine         *)
(* (physics_auth.c / physics_auth.h) and of the callers that drive it.     *)
(*                                                                         *)
(* Numbers.  A C float is modelled as a fixed-point number: the integer    *)
(* v stands for the real v / S.  The float format is finite: a result      *)
(* whose magnitude exceeds the largest finite value FltMax becomes an      *)
(* infinity, and the IEEE-754 rules for infinities and NaN are followed    *)
(* (inf - inf, 0 * inf and fmod(inf, y) are NaN; every ordered comparison  *)
(* with a NaN is false).  The model's FltMax is far smaller than the real  *)
(* FLT_MAX (3.4e38) because the integers of TLC are 32 bits wide; an       *)
(* input "near FltMax" of the model stands for a float near FLT_MAX.       *)
(* Rounding is truncation toward zero at resolution 1/S.                   *)
(***************************************************************************)
EXTENDS Integers, Sequences, FiniteSets, TLC

(***************************************************************************)
(* The number format                                                       *)
(***************************************************************************)
\* fixed-point resolution: the integer v stands for v / S
S == 1000
\* the largest finite magnitude of the number format (stands for FLT_MAX)
FltMax == 1000000000

PInf == FltMax + 1
NInf == -(FltMax + 1)
NaN == FltMax + 2

IsNaN(x) == x = NaN
IsInf(x) == x = PInf \/ x = NInf
IsFinite(x) == ~IsNaN(x) /\ ~IsInf(x)

IAbs(n) == IF n < 0 THEN -n ELSE n
ISign(n) == IF n < 0 THEN -1 ELSE 1
\* C integer division: the quotient truncated toward zero (d # 0)
TruncDiv(n, d) == ISign(n) * ISign(d) * (IAbs(n) \div IAbs(d))

\* a decimal literal n/d of the source, e.g. 0.05f is Lit(5, 100)
Lit(n, d) ==
    ISign(n) * ((IAbs(n) \div d) * S + ((IAbs(n) % d) * S) \div d)
\* (float)n for an int n of moderate size
IntToFloat(n) == n * S

\* the result of an operation whose exact value is the integer x / S
Fl(x) == IF x > FltMax THEN PInf ELSE IF x < -FltMax THEN NInf ELSE x

\* operands below this magnitude have a sum, a product and a quotient that
\* stay finite and within the integers of TLC: the common case, decided
\* first
Narrow == 2 ^ 15
IsNarrow(a, b) == a < Narrow /\ a > -Narrow /\ b < Narrow /\ b > -Narrow

FNeg(a) == IF IsNaN(a) THEN NaN ELSE -a

FAdd(a, b) ==
    IF IsNarrow(a, b) THEN a + b
    ELSE IF IsNaN(a) \/ IsNaN(b) THEN NaN
    ELSE IF IsInf(a) THEN (IF IsInf(b) /\ a # b THEN NaN ELSE a)
    ELSE IF IsInf(b) THEN b
    ELSE Fl(a + b)

FSub(a, b) == IF IsNarrow(a, b) THEN a - b ELSE FAdd(a, FNeg(b))

\* |a| * |b| / S for finite operands, without exceeding the integers of TLC
MagMul(x, y) ==
    LET xq == x \div S
        xr == x % S
        yq == y \div S
        yr == y % S
    IN  IF xq # 0 /\ yq > (FltMax \div S) \div xq THEN PInf
        ELSE Fl(xq * yq * S + xq * yr + xr * yq + (xr * yr) \div S)

FMulWide(a, b) ==
    IF IsNaN(a) \/ IsNaN(b) THEN NaN
    ELSE IF IsInf(a) \/ IsInf(b)
         THEN (IF a = 0 \/ b = 0 THEN NaN
               ELSE IF ISign(a) * ISign(b) > 0 THEN PInf ELSE NInf)
    ELSE LET m == MagMul(IAbs(a), IAbs(b))
         IN  IF ISign(a) * ISign(b) > 0 THEN m ELSE -m

FMul(a, b) ==
    IF IsNarrow(a, b)
    THEN (IF a * b >= 0 THEN (a * b) \div S ELSE -((-(a * b)) \div S))
    ELSE FMulWide(a, b)

\* |a| / |b| * S for finite operands, b # 0
MagDiv(x, y) ==
    IF x <= FltMax \div S THEN (x * S) \div y
    ELSE IF y <= FltMax \div S THEN Fl((x \div y) * S + ((x % y) * S) \div y)
    ELSE (x \div (y \div S))

FDiv(a, b) ==
    IF IsNarrow(a, b) /\ b # 0
    THEN (IF (a >= 0) = (b > 0) THEN (IAbs(a) * S) \div IAbs(b)
          ELSE -((IAbs(a) * S) \div IAbs(b)))
    ELSE IF IsNaN(a) \/ IsNaN(b) THEN NaN
    ELSE IF IsInf(a)
         THEN (IF IsInf(b) THEN NaN
               ELSE IF ISign(a) * ISign(b) > 0 THEN PInf ELSE NInf)
    ELSE IF IsInf(b) THEN 0
    ELSE IF b = 0
         THEN (IF a = 0 THEN NaN ELSE IF a > 0 THEN PInf ELSE NInf)
    ELSE LET m == MagDiv(IAbs(a), IAbs(b))
         IN  IF ISign(a) * ISign(b) > 0 THEN m ELSE -m

\* the ordered comparisons of C: false as soon as an operand is a NaN
FLt(a, b) == ~IsNaN(a) /\ ~IsNaN(b) /\ a < b
FGt(a, b) == ~IsNaN(a) /\ ~IsNaN(b) /\ a > b
FLe(a, b) == ~IsNaN(a) /\ ~IsNaN(b) /\ a <= b

\* fabsf
fabsf(a) == IF IsNaN(a) THEN NaN ELSE IAbs(a)

\* fmodf: the remainder of x / y with the sign of x
fmodf(x, y) ==
    IF IsNaN(x) \/ IsNaN(y) \/ IsInf(x) \/ y = 0 THEN NaN
    ELSE IF IsInf(y) THEN x
    ELSE ISign(x) * (IAbs(x) % IAbs(y))

(***************************************************************************)
(* The float literals of the source: f2_5 is 2.5f, fm3_0 is -3.0f           *)
(***************************************************************************)
fm3_0 == Lit(-3, 1)
fm1_0 == Lit(-1, 1)
fm0_001 == Lit(-1, 1000)
f0_001 == Lit(1, 1000)
f0_01 == Lit(1, 100)
f0_02 == Lit(2, 100)
f0_05 == Lit(5, 100)
f0_09 == Lit(9, 100)
f0_1 == Lit(1, 10)
f0_2 == Lit(2, 10)
f0_3 == Lit(3, 10)
f0_5 == Lit(5, 10)
f0_8 == Lit(8, 10)
f1_0 == Lit(1, 1)
f1_5 == Lit(15, 10)
f2_0 == Lit(2, 1)
f2_5 == Lit(25, 10)
f2_666667 == Lit(2666667, 1000000)
f2_71828 == Lit(271828, 100000)
f3_0 == Lit(3, 1)
f3_14159 == Lit(314159, 100000)
f3_9 == Lit(39, 10)
f5_0 == Lit(5, 1)
f5_5 == Lit(55, 10)
f8_0 == Lit(8, 1)
f9_0 == Lit(9, 1)
f10_0 == Lit(10, 1)
f20_0 == Lit(20, 1)
f27_0 == Lit(27, 1)
f28_0 == Lit(28, 1)
f86_4 == Lit(864, 10)
f1000_0 == Lit(1000, 1)

(***************************************************************************)
(* sinf and cosf of the C library, by range reduction to [0, pi] and       *)
(* Bhaskara's rational approximation 16p / (5 pi^2 - 4p), p = x (pi - x).  *)
(***************************************************************************)
PiS == f3_14159

TwoPiS == 2 * PiS
FivePiSq == 5 * PiS * PiS

\* v limited to [0, 1]
Unit(v) == IF v > S THEN S ELSE IF v < 0 THEN 0 ELSE v

\* 16p / (5 pi^2 - 4p)
Bhaskara(p) == Unit((16 * p) \div ((FivePiSq - 4 * p) \div S))

\* the sine of an angle r reduced to [0, 2 pi)
SinReduced(r) ==
    IF r <= PiS THEN Bhaskara(r * (PiS - r))
    ELSE -Bhaskara((r - PiS) * (TwoPiS - r))

sinf(x) == IF IsFinite(x) THEN SinReduced(x % TwoPiS) ELSE NaN

cosf(x) ==
    IF IsFinite(x) THEN SinReduced(((x % TwoPiS) + PiS \div 2) % TwoPiS)
    ELSE NaN

(***************************************************************************)
(* physics_auth.h and the constants of physics_auth.c                      *)
(***************************************************************************)
PHI_SIZE == 100
DT == f0_05
CHALLENGE_LENGTH == 50
EVOLUTION_STEPS == 200
LORENZ_SIGMA == f10_0
LORENZ_RHO == f28_0
LORENZ_BETA == f2_666667
U_E == f86_4
I_CHAR == f8_0
R_CHAR == f8_0
ALPHA_PSI == f3_0
BETA_PSI == f0_5

(***************************************************************************)
(* uint32_t: the pair <<high 16 bits, low 16 bits>>                        *)
(***************************************************************************)
W16 == 2 ^ 16

U32(hi, lo) == <<hi, lo>>

RECURSIVE XorBits(_, _, _)
XorBits(a, b, n) ==
    IF n = 0 THEN 0
    ELSE ((a + b) % 2) + 2 * XorBits(a \div 2, b \div 2, n - 1)

Xor32(x, y) == <<XorBits(x[1], y[1], 16), XorBits(x[2], y[2], 16)>>

\* a variant of x << n that shifts the two 16-bit halves separately and
\* so loses the bits that leave the low half
Shl32Halves(x, n) ==
    LET m == 2 ^ n
    IN  <<(x[1] * m) % W16, (x[2] * m) % W16>>

\* x << n for 0 < n < 16, truncated to 32 bits
Shl32(x, n) ==
    LET m == 2 ^ n
    IN  <<((x[1] * m) % W16) + ((x[2] * m) \div W16), (x[2] * m) % W16>>

\* x >> n for 16 <= n < 32
Shr32(x, n) == <<0, x[1] \div (2 ^ (n - 16))>>

\* x & 0xFFFF, as an int
Low16(x) == x[2]

\* a variant that guards against the zero state: it shifts 1 in its place
xorshift32_guarded(state) ==
    LET x0 == IF state = <<0, 0>> THEN <<0, 1>> ELSE state
        x1 == Xor32(x0, Shl32(x0, 13))
        x2 == Xor32(x1, Shr32(x1, 17))
    IN  Xor32(x2, Shl32(x2, 5))

\* the value xorshift32 stores into *state and returns
xorshift32(state) ==
    LET x1 == Xor32(state, Shl32(state, 13))
        x2 == Xor32(x1, Shr32(x1, 17))
    IN  Xor32(x2, Shl32(x2, 5))

\* (float)(draw & 0xFFFF) / 65535.0f * scale
Normalise(draw, scale) ==
    FMul(FDiv(IntToFloat(Low16(draw)), IntToFloat(65535)), scale)

\* line 55: x * (27 + x2) / (27 + 9 * x2)
TanhRational(x, x2) ==
    FDiv(FMul(x, FAdd(f27_0, x2)), FAdd(f27_0, FMul(f9_0, x2)))

fast_tanh(x) ==
    IF FLt(x, fm3_0) THEN fm1_0
    ELSE IF FGt(x, f3_0) THEN f1_0
    ELSE TanhRational(x, FMul(x, x))

\* lines 61-62, from the x of line 60
MixTail(a, b, c, x) ==
    FAdd(FMul(x, fast_tanh(FMul(c, x))), sinf(FAdd(FMul(a, b), c)))

mix_nonlinear(a, b, c) ==
    MixTail(a, b, c, FMul(sinf(FMul(a, f3_14159)), cosf(FMul(b, f2_71828))))

\* the number of generator calls of init_agent_state
InitDraws == PHI_SIZE + 3

RECURSIVE DrawSeq(_, _)
\* the draws a, followed by n more
DrawMore(a, n) == a \o DrawSeq(a[Len(a)], n)

\* the values n >= 1 successive calls of xorshift32 return, from state on
DrawSeq(state, n) ==
    IF n = 1 THEN <<xorshift32(state)>>
    ELSE DrawMore(DrawSeq(state, n \div 2), n - n \div 2)

\* a variant that fills Lz, Ly, Lx in this order, after Phi
AgentOfDrawsLzFirst(d) ==
    [ I |-> f0_1, R |-> f0_1, Psi |-> f0_1,
      Phi |-> [j \in 0 .. PHI_SIZE - 1 |-> Normalise(d[j + 1], f0_1)],
      Lx |-> FAdd(f1_0, Normalise(d[PHI_SIZE + 3], f0_01)),
      Ly |-> FAdd(f1_0, Normalise(d[PHI_SIZE + 2], f0_01)),
      Lz |-> FAdd(f1_0, Normalise(d[PHI_SIZE + 1], f0_01)),
      entropy |-> 0 ]

\* lines 69-84: the agent filled from the draws d of the generator
AgentOfDraws(d) ==
    [ I |-> f0_1, R |-> f0_1, Psi |-> f0_1,
      Phi |-> [j \in 0 .. PHI_SIZE - 1 |-> Normalise(d[j + 1], f0_1)],
      Lx |-> FAdd(f1_0, Normalise(d[PHI_SIZE + 1], f0_01)),
      Ly |-> FAdd(f1_0, Normalise(d[PHI_SIZE + 2], f0_01)),
      Lz |-> FAdd(f1_0, Normalise(d[PHI_SIZE + 3], f0_01)),
      entropy |-> 0 ]

\* the agent and the local rng_state that init_agent_state ends with
InitOfDraws(d) == [agent |-> AgentOfDraws(d), rng_state |-> d[Len(d)]]

\* lines 66-85: rng_state = seed, then one draw for each Phi[i], in order,
\* then one each for Lx, Ly, Lz
init_agent_state(seed) == InitOfDraws(DrawSeq(seed, InitDraws))

\* if (fabsf(v) > bound) v = fmodf(v * factor, bound)
Wrap(v, factor, bound) ==
    IF v <= bound /\ v >= -bound THEN v
    ELSE IF FGt(fabsf(v), bound) THEN fmodf(FMul(v, factor), bound) ELSE v

\* for (i = 0; i < PHI_SIZE; i++) phi_avg += Phi[i];  phi_avg /= PHI_SIZE
\* (the additions are exact at this resolution and a NaN absorbs in any
\* order, so the sum is taken by halves to keep the evaluation shallow)
RECURSIVE SumPhi(_, _, _)
SumPhi(Phi, lo, hi) ==
    IF lo = hi THEN Phi[lo]
    ELSE LET mid == (lo + hi) \div 2
         IN  FAdd(SumPhi(Phi, lo, mid), SumPhi(Phi, mid + 1, hi))

PhiAvg(Phi) == FDiv(SumPhi(Phi, 0, PHI_SIZE - 1), IntToFloat(PHI_SIZE))

\* x = r * x * (1 - x), n times
RECURSIVE Logistic(_, _, _)
Logistic(r, x, n) ==
    IF n = 0 THEN x
    ELSE Logistic(r, FMul(FMul(r, x), FSub(f1_0, x)), n - 1)

(***************************************************************************)
(* evolve_step: the agent and the generator state after one call.  The     *)
(* result is [agent |-> ..., seed_state |-> ...].                          *)
(***************************************************************************)
\* a variant that integrates the Lorenz system with the time step DT of the
\* primary dynamics
LorenzUpdateMainStep(agent, phi_input) ==
    LET dLx0 == FMul(LORENZ_SIGMA, FSub(agent.Ly, agent.Lx))
        dLy == FSub(FMul(agent.Lx, FSub(LORENZ_RHO, agent.Lz)), agent.Ly)
        dLz == FSub(FMul(agent.Lx, agent.Ly), FMul(LORENZ_BETA, agent.Lz))
        dLx == FAdd(dLx0, FMul(phi_input, f2_0))
    IN  [agent EXCEPT
           !.Lx = Wrap(FAdd(agent.Lx, FMul(dLx, DT)), f1_0, f20_0),
           !.Ly = Wrap(FAdd(agent.Ly, FMul(dLy, DT)), f1_0, f20_0),
           !.Lz = Wrap(FAdd(agent.Lz, FMul(dLz, DT)), f1_0, f20_0)]

\* lines 95-112: the Lorenz update and its wraps
LorenzUpdate(agent, phi_input) ==
    LET dt == f0_02
        dLx0 == FMul(LORENZ_SIGMA, FSub(agent.Ly, agent.Lx))
        dLy == FSub(FMul(agent.Lx, FSub(LORENZ_RHO, agent.Lz)), agent.Ly)
        dLz == FSub(FMul(agent.Lx, agent.Ly), FMul(LORENZ_BETA, agent.Lz))
        dLx == FAdd(dLx0, FMul(phi_input, f2_0))
    IN  [agent EXCEPT
           !.Lx = Wrap(FAdd(agent.Lx, FMul(dLx, dt)), f1_0, f20_0),
           !.Ly = Wrap(FAdd(agent.Ly, FMul(dLy, dt)), f1_0, f20_0),
           !.Lz = Wrap(FAdd(agent.Lz, FMul(dLz, dt)), f1_0, f20_0)]

\* line 119: x = 0.5f + 0.5f * fast_tanh(agent->Psi)
LogisticSeed(Psi) == FAdd(f0_5, FMul(f0_5, fast_tanh(Psi)))

\* line 120: r = 3.9f + 0.09f * fast_tanh(agent->Lx * 0.1f)
LogisticRate(Lx) == FAdd(f3_9, FMul(f0_09, fast_tanh(FMul(Lx, f0_1))))

\* lines 119-126: the logistic map, from the agent after the Lorenz update
ChaosKick(agent) ==
    LET x0 == LogisticSeed(agent.Psi)
        r == LogisticRate(agent.Lx)
        x == Logistic(r, x0, 3)
    IN  FMul(FSub(x, f0_5), f2_0)

\* lines 132-145: phi_avg, the derivatives and the update of I, R and Psi,
\* before any wrap
PrimaryUpdate(agent, k, gamma, chaos_kick, seed_noise) ==
    LET phi_avg == PhiAvg(agent.Phi)
        dI == FSub(FAdd(FMul(k, phi_avg), FMul(chaos_kick, f0_5)),
                   FMul(FMul(FDiv(U_E, I_CHAR), agent.I), f0_5))
        dR == FSub(FMul(FMul(f0_1, agent.I), agent.Psi),
                   FMul(FMul(FDiv(FMul(f2_0, U_E), R_CHAR), agent.R),
                        f0_3))
        dPsi == FSub(FSub(FMul(ALPHA_PSI, agent.I), FMul(BETA_PSI, agent.R)),
                     FMul(gamma, agent.Psi))
    IN  [agent EXCEPT
           !.I = FAdd(FAdd(agent.I, FMul(dI, DT)), seed_noise),
           !.R = FAdd(agent.R, FMul(dR, DT)),
           !.Psi = FAdd(agent.Psi, FMul(dPsi, DT))]

\* a variant that wraps I and Psi without the factor 1.5
MainWrapsUnscaled(agent) ==
    [agent EXCEPT !.I = Wrap(@, f1_0, f5_0), !.Psi = Wrap(@, f1_0, f5_0)]

\* lines 148-149: the wraps of I and Psi; R has none
MainWraps(agent) ==
    [agent EXCEPT !.I = Wrap(@, f1_5, f5_0), !.Psi = Wrap(@, f1_5, f5_0)]

\* lines 132-149: the primary dynamics and the wraps of I and Psi
PrimaryDynamics(agent, k, gamma, chaos_kick, seed_noise) ==
    MainWraps(PrimaryUpdate(agent, k, gamma, chaos_kick, seed_noise))

\* lines 154-159: the new Phi[i], from the old one
PhiUpdate(phi, j, Psi, Lx, phi_input) ==
    Wrap(FAdd(phi,
              FMul(FAdd(FMul(fast_tanh(FSub(FMul(Psi, f0_5), phi)), f0_2),
                        FMul(FMul(phi_input, f0_1),
                             sinf(FAdd(FMul(IntToFloat(j), f0_5), Lx)))),
                   DT)),
         f1_0, f3_0)

\* lines 152-160: the field evolution and its wrap
PhiEvolution(agent, phi_input) ==
    [agent EXCEPT !.Phi =
        [j \in 0 .. PHI_SIZE - 1 |->
            PhiUpdate(agent.Phi[j], j, agent.Psi, agent.Lx, phi_input)]]

\* lines 163-164: the entropy accumulator
EntropyAccumulation(agent, phi_input) ==
    [agent EXCEPT !.entropy =
        fmodf(FAdd(agent.entropy,
                   mix_nonlinear(agent.Psi, agent.Lx, phi_input)),
              f1000_0)]

\* a variant in which the Phi field evolves before the primary dynamics
EvolveRestPhiFirst(a1, k, gamma, phi_input, draw, seed_noise) ==
    [agent |->
        EntropyAccumulation(
            PrimaryDynamics(PhiEvolution(a1, phi_input), k, gamma,
                            ChaosKick(a1), seed_noise),
            phi_input),
     seed_state |-> draw,
     seed_noise |-> seed_noise,
     raw |-> PrimaryUpdate(a1, k, gamma, ChaosKick(a1), seed_noise)]

\* lines 128-164: the rest of the step, from the agent a1 that the Lorenz
\* update left and the value the generator returned; raw is the agent as
\* lines 143-145 leave it, before the wraps of lines 148-149
EvolveRest(a1, k, gamma, phi_input, draw, seed_noise) ==
    [agent |->
        EntropyAccumulation(
            PhiEvolution(
                PrimaryDynamics(a1, k, gamma, ChaosKick(a1), seed_noise),
                phi_input),
            phi_input),
     seed_state |-> draw,
     seed_noise |-> seed_noise,
     raw |-> PrimaryUpdate(a1, k, gamma, ChaosKick(a1), seed_noise)]

\* line 129: the generator is called once, on *seed_state, and its value
\* is normalised into seed_noise
DrawNoise(a1, k, gamma, phi_input, draw) ==
    EvolveRest(a1, k, gamma, phi_input, draw, Normalise(draw, f0_1))

\* a variant of evolve_step that calls the generator twice and uses the
\* second value
evolve_step_two_draws(agent, k, gamma, phi_input, seed_state, step) ==
    DrawNoise(LorenzUpdate(agent, phi_input), k, gamma, phi_input,
              xorshift32(xorshift32(seed_state)))

evolve_step(agent, k, gamma, phi_input, seed_state, step) ==
    DrawNoise(LorenzUpdate(agent, phi_input), k, gamma, phi_input,
              xorshift32(seed_state))

\* line 183: the challenge value mixed with the step counter
ModifiedChallenge(c, total_step) ==
    FMul(c, FAdd(f1_0,
                 FMul(f0_01,
                      sinf(FMul(IntToFloat(total_step), f0_1)))))

\* lines 196-212: the response from the final agent and its phi_avg
ResponseOf(agent, phi_avg, k) ==
    [ psi |-> agent.Psi,
      i_val |-> agent.I,
      r_val |-> agent.R,
      phi_avg |-> phi_avg,
      lorenz_x |-> agent.Lx,
      lorenz_y |-> agent.Ly,
      lorenz_z |-> agent.Lz,
      entropy_hash |->
          FAdd(fast_tanh(FAdd(FAdd(mix_nonlinear(agent.Psi, agent.I, agent.R),
                                   mix_nonlinear(agent.Lx, agent.Ly, agent.Lz)),
                              mix_nonlinear(phi_avg, agent.entropy, k))),
               FMul(agent.entropy, f0_001)) ]

\* lines 189-212: the response reduced from the final agent
ReduceResponse(agent, k) == ResponseOf(agent, PhiAvg(agent.Phi), k)

\* a variant of auth_verify that compares the four fields of the first
\* version of the response only
auth_verify_v1(received, expected, tolerance) ==
    IF /\ FLt(fabsf(FSub(received.psi, expected.psi)), tolerance)
       /\ FLt(fabsf(FSub(received.i_val, expected.i_val)), tolerance)
       /\ FLt(fabsf(FSub(received.r_val, expected.r_val)), tolerance)
       /\ FLt(fabsf(FSub(received.phi_avg, expected.phi_avg)), tolerance)
    THEN 1 ELSE 0

\* lines 216-225: auth_verify, as C's int
auth_verify(received, expected, tolerance) ==
    IF  /\ FLt(fabsf(FSub(received.psi, expected.psi)), tolerance)
        /\ FLt(fabsf(FSub(received.i_val, expected.i_val)), tolerance)
        /\ FLt(fabsf(FSub(received.r_val, expected.r_val)), tolerance)
        /\ FLt(fabsf(FSub(received.phi_avg, expected.phi_avg)), tolerance)
        /\ FLt(fabsf(FSub(received.lorenz_x, expected.lorenz_x)), tolerance)
        /\ FLt(fabsf(FSub(received.lorenz_y, expected.lorenz_y)), tolerance)
        /\ FLt(fabsf(FSub(received.lorenz_z, expected.lorenz_z)), tolerance)
        /\ FLt(fabsf(FSub(received.entropy_hash, expected.entropy_hash)),
               tolerance)
    THEN 1 ELSE 0

(***************************************************************************)
(* The state.  Every invocation of auth_compute_response has its own       *)
(* frame: the locals of auth_compute_response and of init_agent_state.     *)
(***************************************************************************)
Procs == {1, 2}

VARIABLES
    pc,            \* where each invocation stands
    challenge,     \* the argument challenge (the array, 1-based here)
    length,        \* the argument length
    secret,        \* the argument *secret
    agent,         \* AgentState agent
    rng_state,     \* init_agent_state's local generator state
    seed_state,    \* auth_compute_response's generator state, by cell
    steps_per_challenge,
    t,
    s,
    total_step,
    returned,      \* whether the invocation has returned a Response
    resp,          \* the Response returned
    draws,         \* how many times the invocation has called xorshift32
    evolves,       \* how many times the invocation has called evolve_step
    ncalls,        \* how many calls the sequential caller has completed
    spawned,       \* the invocations started to run concurrently
    overlapped,    \* whether a step ran while another invocation was in its loop
    first,         \* the first completed call: its arguments and result
    inits,         \* how many times the caller has called auth_init
    last,          \* the last evolve_step call of each invocation
    vres,          \* the last call of auth_verify: arguments and result
    helper         \* a function called on its own: its arguments and results

vars == <<pc, challenge, length, secret, agent, rng_state, seed_state,
          steps_per_challenge, t, s, total_step, returned, resp, draws,
          evolves, ncalls, spawned, overlapped, first, inits, last, vres,
          helper>>

frame == <<challenge, length, secret>>
loopvars == <<steps_per_challenge, t, s, total_step>>
callervars == <<ncalls, spawned, first, inits, vres, helper>>
ghostvars == <<overlapped, last>>

ZeroAgent ==
    [ I |-> 0, R |-> 0, Psi |-> 0, Phi |-> [j \in 0 .. PHI_SIZE - 1 |-> 0],
      Lx |-> 0, Ly |-> 0, Lz |-> 0, entropy |-> 0 ]

ZeroResp ==
    [ psi |-> 0, i_val |-> 0, r_val |-> 0, phi_avg |-> 0,
      lorenz_x |-> 0, lorenz_y |-> 0, lorenz_z |-> 0, entropy_hash |-> 0 ]

ZeroSecret == [k |-> 0, gamma |-> 0, seed |-> U32(0, 0)]

NoCall == [made |-> FALSE, challenge |-> <<>>, length |-> 0,
           secret |-> ZeroSecret, resp |-> ZeroResp, draws |-> 0,
           evolves |-> 0, inits |-> 0]

\* no evolve_step call yet
NoStep == [t |-> -1, step |-> -1, seed_noise |-> 0, I |-> 0, Psi |-> 0]

\* no function is run on its own
NoHelper == [name |-> "none", x |-> 0, out |-> 0]

NoVerify == [called |-> FALSE, received |-> ZeroResp, expected |-> ZeroResp,
             tolerance |-> 0, result |-> 0]

(***************************************************************************)
(* The inputs                                                              *)
(***************************************************************************)
\* how many calls the sequential caller makes
MaxCalls == 2

\* the cap of the counter total_step (an int in the source)
MaxTotalStep == 400

\* a finite challenge value so large that doubling it leaves the format
Huge == FltMax - FltMax \div 4

RefSecret == [k |-> f2_5, gamma |-> f0_8, seed |-> U32(0, 12345)]
SeedZeroSecret == [k |-> f2_5, gamma |-> f0_8, seed |-> U32(0, 0)]
EdgeSecret ==
    [k |-> f5_5, gamma |-> f0_05, seed |-> U32(65535, 65535)]

Constant(n, c) == [j \in 1 .. n |-> c]
Ramp(n, c) == [j \in 1 .. n |-> FMul(IntToFloat(j - 1), c)]

Args ==
    { [challenge |-> Constant(CHALLENGE_LENGTH, f1_5),
       length |-> CHALLENGE_LENGTH, secret |-> RefSecret],
      [challenge |-> Ramp(CHALLENGE_LENGTH, f0_05),
       length |-> CHALLENGE_LENGTH, secret |-> SeedZeroSecret],
      [challenge |-> Ramp(7, f0_5), length |-> 7, secret |-> EdgeSecret],
      [challenge |-> <<Huge>>, length |-> 1, secret |-> RefSecret],
      [challenge |-> <<>>, length |-> 0, secret |-> RefSecret],
      [challenge |-> <<f1_5>>, length |-> -1, secret |-> RefSecret] }

\* the tolerances the caller passes to auth_verify
Tolerances == {fm0_001, 0, f0_001, f0_5}

\* the fields of AuthResponse
Fields == {"psi", "i_val", "r_val", "phi_avg", "lorenz_x", "lorenz_y",
           "lorenz_z", "entropy_hash"}

\* the amounts by which the caller shifts a field of a response it submits
Shifts == {0, f0_001}

(***************************************************************************)
(* auth_compute_response, statement by statement                           *)
(***************************************************************************)
\* a variant in which seed_state is one cell of static storage
SeedCellStatic(p) == 1

\* the cell that holds the seed_state of invocation p: a local of its frame
SeedCell(p) == p

\* a variant in which seed_state is initialised by the first call only and
\* keeps its value from one call to the next
EnterSeedStateOnce(old, sec) == IF old = U32(0, 0) THEN sec.seed ELSE old

\* a variant in which init_agent_state is handed the address of seed_state,
\* so that the noise of the steps continues after the draws of the
\* initialisation
EnterSeedStateContinued(old, sec) == DrawSeq(sec.seed, InitDraws)[InitDraws]

\* line 170: uint32_t seed_state = secret->seed
EnterSeedState(old, sec) == sec.seed

\* the state before the first call, the secret of the caller of
\* invocation 1 being sec and the generator state of its cell being x
\* the state before the first call, with the secret and the generator state
\* of the caller and the function call h that is to be run on its own
InitHelper(sec, x, h) ==
    /\ pc = [p \in Procs |-> "idle"]
    /\ challenge = [p \in Procs |-> <<>>]
    /\ length = [p \in Procs |-> 0]
    /\ secret = [p \in Procs |-> IF p = 1 THEN sec ELSE ZeroSecret]
    /\ agent = [p \in Procs |-> ZeroAgent]
    /\ rng_state = [p \in Procs |-> U32(0, 0)]
    /\ seed_state = [c \in Procs |-> IF c = 1 THEN x ELSE U32(0, 0)]
    /\ steps_per_challenge = [p \in Procs |-> 0]
    /\ t = [p \in Procs |-> 0]
    /\ s = [p \in Procs |-> 0]
    /\ total_step = [p \in Procs |-> 0]
    /\ returned = [p \in Procs |-> FALSE]
    /\ resp = [p \in Procs |-> ZeroResp]
    /\ draws = [p \in Procs |-> 0]
    /\ evolves = [p \in Procs |-> 0]
    /\ ncalls = 0
    /\ spawned = {}
    /\ overlapped = FALSE
    /\ first = NoCall
    /\ inits = 0
    /\ last = [p \in Procs |-> NoStep]
    /\ vres = NoVerify
    /\ helper = h

InitWith(sec, x) == InitHelper(sec, x, NoHelper)

Init == InitWith(ZeroSecret, U32(0, 0))

\* the effect of the entry on the frame of p, from the state st that
\* init_agent_state leaves
EnterEffect(p, a, st) ==
    /\ agent' = [agent EXCEPT ![p] = st.agent]
    /\ rng_state' = [rng_state EXCEPT ![p] = st.rng_state]
    /\ seed_state' = [seed_state EXCEPT
                        ![SeedCell(p)] = EnterSeedState(@, a.secret)]

\* lines 168-173: the call, seed_state = secret->seed, and init_agent_state
Enter(p, a) ==
    /\ pc[p] = "idle"
    /\ pc' = [pc EXCEPT ![p] = "div"]
    /\ challenge' = [challenge EXCEPT ![p] = a.challenge]
    /\ length' = [length EXCEPT ![p] = a.length]
    /\ secret' = [secret EXCEPT ![p] = a.secret]
    /\ EnterEffect(p, a, init_agent_state(a.secret.seed))
    /\ returned' = [returned EXCEPT ![p] = FALSE]
    /\ resp' = [resp EXCEPT ![p] = ZeroResp]
    /\ draws' = [draws EXCEPT ![p] = InitDraws]
    /\ evolves' = [evolves EXCEPT ![p] = 0]
    /\ steps_per_challenge' = [steps_per_challenge EXCEPT ![p] = 0]
    /\ t' = [t EXCEPT ![p] = 0]
    /\ s' = [s EXCEPT ![p] = 0]
    /\ total_step' = [total_step EXCEPT ![p] = 0]
    /\ last' = [last EXCEPT ![p] = NoStep]

\* what EVOLUTION_STEPS / 0 may yield where the division does not trap
DivZeroQuotients == {0, EVOLUTION_STEPS}

\* a variant that rounds the quotient up
StepsPerChallengeRoundedUp(q) == q + 1

\* a variant without the floor of 1
StepsPerChallengeUnclamped(q) == q

\* line 177: if (steps_per_challenge < 1) steps_per_challenge = 1
StepsPerChallenge(q) == IF q < 1 THEN 1 ELSE q

\* lines 176-179: steps_per_challenge; the division by a zero length is
\* undefined: it traps or yields some quotient
Divide(p) ==
    /\ pc[p] = "div"
    /\ \E q \in (IF length[p] = 0 THEN DivZeroQuotients
                 ELSE {TruncDiv(EVOLUTION_STEPS, length[p])}) :
          steps_per_challenge' =
              [steps_per_challenge EXCEPT ![p] = StepsPerChallenge(q)]
    /\ pc' = [pc EXCEPT ![p] = "loop"]
    /\ t' = [t EXCEPT ![p] = 0]
    /\ s' = [s EXCEPT ![p] = 0]
    /\ total_step' = [total_step EXCEPT ![p] = 0]
    /\ UNCHANGED <<frame, agent, rng_state, seed_state, returned, resp,
                   draws, evolves, callervars,
                   ghostvars>>

DivideTrap(p) ==
    /\ pc[p] = "div"
    /\ length[p] = 0
    /\ pc' = [pc EXCEPT ![p] = "trap"]
    /\ UNCHANGED <<frame, agent, rng_state, seed_state, loopvars, returned,
                   resp, draws, evolves, callervars,
                   ghostvars>>

\* a variant of the loop that leaves at a challenge element equal to 0
LoopGuardUntilZero(tt, len, c) == tt < len /\ c[tt + 1] # 0

\* lines 180-181: whether the nest of loops runs another iteration
LoopGuard(tt, len, c) == tt < len

\* a variant of the loop whose outer counter t never advances
LoopAdvanceInnerOnly(tt, ss, spc) ==
    IF ss + 1 < spc THEN <<tt, ss + 1>> ELSE <<tt, 0>>

\* the counters <<t, s>> after one iteration of the inner loop
LoopAdvance(tt, ss, spc) ==
    IF ss + 1 < spc THEN <<tt, ss + 1>> ELSE <<tt + 1, 0>>

\* a variant in which evolve_step is handed the address of secret->seed, so
\* that the generator advances the seed of the caller's secret
SecretSeedAdvanced(sec, draw) == [sec EXCEPT !.seed = draw]

\* lines 170, 184: evolve_step is handed the address of the copy seed_state;
\* the secret, reached through a pointer to const, is left as it was
SecretAfterStep(sec, draw) == sec

\* a variant that takes the challenge elements in turn, one for each step
ChallengeIndexRoundRobin(tt, step, len) == step % len

\* line 183: the element challenge[t] that drives the step
ChallengeIndex(tt, step, len) == tt

\* the effect of one evolve_step call, whose result is r, on the frame of p
StepEffect(p, r, n) ==
    /\ agent' = [agent EXCEPT ![p] = r.agent]
    /\ secret' = [secret EXCEPT ![p] = SecretAfterStep(@, r.seed_state)]
    /\ seed_state' = [seed_state EXCEPT ![SeedCell(p)] = r.seed_state]
    /\ t' = [t EXCEPT ![p] = n[1]]
    /\ s' = [s EXCEPT ![p] = n[2]]
    /\ last' = [last EXCEPT ![p] =
                   [t |-> ChallengeIndex(t[p], total_step[p], length[p]),
                    step |-> total_step[p],
                    seed_noise |-> r.seed_noise,
                    I |-> r.raw.I,
                    Psi |-> r.raw.Psi]]

\* whether an invocation of the set ps is between two steps of its loop
MidLoop(ps) == \E q \in ps : pc[q] = "loop" /\ evolves[q] > 0

\* lines 183-185: one iteration of the inner loop
Step(p) ==
    /\ pc[p] = "loop"
    /\ total_step[p] < MaxTotalStep
    /\ LoopGuard(t[p], length[p], challenge[p])
    /\ StepEffect(p,
                  evolve_step(agent[p], secret[p].k, secret[p].gamma,
                              ModifiedChallenge(
                                  challenge[p][ChallengeIndex(t[p],
                                      total_step[p], length[p]) + 1],
                                  total_step[p]),
                              seed_state[SeedCell(p)], total_step[p]),
                  LoopAdvance(t[p], s[p], steps_per_challenge[p]))
    /\ total_step' = [total_step EXCEPT ![p] = @ + 1]
    /\ draws' = [draws EXCEPT ![p] = @ + 1]
    /\ evolves' = [evolves EXCEPT ![p] = @ + 1]
    /\ overlapped' = (overlapped \/ MidLoop(Procs \ {p}))
    /\ UNCHANGED <<pc, challenge, length, rng_state, steps_per_challenge,
                   returned, resp, callervars>>

\* lines 189-212: the response is reduced from the agent and returned
Reduce(p) ==
    /\ pc[p] = "loop"
    /\ ~LoopGuard(t[p], length[p], challenge[p])
    /\ resp' = [resp EXCEPT ![p] = ReduceResponse(agent[p], secret[p].k)]
    /\ returned' = [returned EXCEPT ![p] = TRUE]
    /\ pc' = [pc EXCEPT ![p] = "done"]
    /\ UNCHANGED <<frame, agent, rng_state, seed_state, loopvars, draws,
                   evolves, callervars,
                   ghostvars>>

(***************************************************************************)
(* The sequential caller: it calls auth_compute_response, checks the       *)
(* response with auth_verify, and calls again.                             *)
(***************************************************************************)
ThisCall(p) ==
    [made |-> TRUE, challenge |-> challenge[p], length |-> length[p],
     secret |-> secret[p], resp |-> resp[p], draws |-> draws[p],
     evolves |-> evolves[p], inits |-> inits]

Call(p, a) ==
    /\ ncalls < MaxCalls
    /\ Enter(p, a)
    /\ vres' = NoVerify
    /\ UNCHANGED <<ncalls, spawned, overlapped, first, inits, helper>>

\* the record auth_verify's caller keeps of one call
VerifyCall(received, expected, tol) ==
    [called |-> TRUE, received |-> received, expected |-> expected,
     tolerance |-> tol, result |-> auth_verify(received, expected, tol)]

\* the caller submits its response, with field f shifted by d, against the
\* expected response e at tolerance tol
Verify(p, f, d, e, tol) ==
    /\ pc[p] = "done"
    /\ ~vres.called
    /\ vres' = VerifyCall([resp[p] EXCEPT ![f] = FAdd(@, d)], e, tol)
    /\ UNCHANGED <<pc, frame, agent, rng_state, seed_state, loopvars,
                   returned, resp, draws, evolves, ncalls, spawned, overlapped,
                   first, inits, last, helper>>

Finish(p) ==
    /\ pc[p] = "done"
    /\ pc' = [pc EXCEPT ![p] = "idle"]
    /\ ncalls' = ncalls + 1
    /\ first' = IF first.made THEN first ELSE ThisCall(p)
    /\ vres' = NoVerify
    /\ UNCHANGED <<frame, agent, rng_state, seed_state, loopvars, returned,
                   resp, draws, evolves, spawned, overlapped, inits, last,
                   helper>>

Expected(p) == {resp[p]} \cup (IF first.made THEN {first.resp} ELSE {})

Next ==
    \/ \E a \in Args : Call(1, a)
    \/ Divide(1)
    \/ DivideTrap(1)
    \/ Step(1)
    \/ Reduce(1)
    \/ \E f \in Fields, d \in Shifts, e \in Expected(1), tol \in Tolerances :
          Verify(1, f, d, e, tol)
    \/ Finish(1)

Spec == Init /\ [][Next]_vars

(***************************************************************************)
(* Fairness.  The engine is synchronous and has no suspension point: an    *)
(* invocation that has been called executes its next statement.  This is   *)
(* weak fairness of the statements of invocation 1, written out as         *)
(* []<>(not enabled) \/ []<>(taken) with the enabling condition CanRun     *)
(* read off the guards of the statements.                                  *)
(***************************************************************************)
\* whether invocation p has a statement of auth_compute_response to execute
CanRun(p) ==
    \/ pc[p] = "div"
    \/ /\ pc[p] = "loop"
       /\ \/ ~LoopGuard(t[p], length[p], challenge[p])
          \/ total_step[p] < MaxTotalStep

\* a step in which invocation p executes a statement
RunStep(p) ==
    /\ pc[p] \in {"div", "loop"}
    /\ (pc'[p] # pc[p] \/ draws'[p] # draws[p])

FairSpec == Spec /\ ([]<>(~CanRun(1)) \/ []<><<RunStep(1)>>_vars)

(***************************************************************************)
(* Concurrent invocations.  Invocation 1 first runs one call alone, which  *)
(* is recorded in first; then every invocation is started once, with the   *)
(* same arguments, and their statements interleave in any order.           *)
(***************************************************************************)
\* a challenge longer than EVOLUTION_STEPS / 2: one step for each element
LongLength == EVOLUTION_STEPS \div 2 + 1

ConcArgs ==
    { [challenge |-> Constant(LongLength, f1_5), length |-> LongLength,
       secret |-> RefSecret] }

Spawn(p, a) ==
    /\ ncalls = 1
    /\ p \notin spawned
    /\ Enter(p, a)
    /\ spawned' = spawned \cup {p}
    /\ UNCHANGED <<ncalls, overlapped, first, inits, vres, helper>>

NextConc ==
    \/ \E a \in ConcArgs : ncalls = 0 /\ Call(1, a)
    \/ ncalls = 0 /\ Finish(1)
    \/ \E p \in Procs, a \in ConcArgs : Spawn(p, a)
    \/ \E p \in Procs : Divide(p)
    \/ \E p \in Procs : Step(p)
    \/ \E p \in Procs : Reduce(p)

SpecConc == Init /\ [][NextConc]_vars

(***************************************************************************)
(* The generator alone.  From each of the initial states below, xorshift32 *)
(* is called on the cell of invocation 1 a number of times, or             *)
(* init_agent_state is run with that state as the seed.                    *)
(***************************************************************************)
\* how many times xorshift32 is called
MaxDraws == 104

\* initial states: 0, small values, the seeds of the tests, values with a
\* high bit, and values whose next value has the low 16 bits 0xFFFF
GeneratorStates ==
    { U32(0, 0), U32(0, 1), U32(0, 161), U32(0, 12345), U32(0, 12346),
      U32(0, 65535), U32(1, 0), U32(32768, 0), U32(65535, 65535),
      U32(63922, 8936), U32(40269, 8370), U32(24172, 64743) }

InitGenerator ==
    \E x \in GeneratorStates : InitWith([RefSecret EXCEPT !.seed = x], x)

\* line 129: xorshift32(seed_state) called on the cell of invocation p
GeneratorDraw(p) ==
    /\ pc[p] = "idle"
    /\ draws[p] < MaxDraws
    /\ seed_state' = [seed_state EXCEPT ![SeedCell(p)] = xorshift32(@)]
    /\ draws' = [draws EXCEPT ![p] = @ + 1]
    /\ last' = [last EXCEPT ![p].seed_noise =
                   Normalise(xorshift32(seed_state[SeedCell(p)]), f0_1)]
    /\ UNCHANGED <<pc, frame, agent, rng_state, loopvars, returned, resp,
                   evolves, ncalls, spawned, overlapped, first, inits, vres,
                   helper>>

\* line 173: init_agent_state run with the initial state as the seed
GeneratorInit(p) ==
    /\ draws[p] = 0
    /\ Call(p, [challenge |-> <<f1_5>>, length |-> 1, secret |-> secret[p]])

NextGenerator ==
    \/ GeneratorDraw(1)
    \/ GeneratorInit(1)

SpecGenerator == InitGenerator /\ [][NextGenerator]_vars

(***************************************************************************)
(* Challenges of many lengths.  The caller makes one call, with a challenge *)
(* of one of the lengths below.                                            *)
(***************************************************************************)
\* lengths that divide EVOLUTION_STEPS, that do not, and that exceed it
Lengths ==
    {1, 7, CHALLENGE_LENGTH, 64, LongLength, EVOLUTION_STEPS,
     EVOLUTION_STEPS + 1}

NextLengths ==
    \/ \E n \in Lengths :
          /\ ncalls = 0
          /\ Call(1, [challenge |-> Ramp(n, f0_01), length |-> n,
                      secret |-> RefSecret])
    \/ Divide(1)
    \/ Step(1)
    \/ Reduce(1)
    \/ Finish(1)

SpecLengths == Init /\ [][NextLengths]_vars

(***************************************************************************)
(* auth_init.  The caller may call auth_init before, between and after its *)
(* calls of auth_compute_response, any number of times.                    *)
(***************************************************************************)
\* how many times the caller calls auth_init
MaxInits == 2

\* the storage of the engine that outlives a call
Storage == <<agent, rng_state, seed_state, returned, resp>>

\* a variant of auth_init that clears the storage of the engine
auth_init_clearing(st) ==
    <<[p \in Procs |-> ZeroAgent], st[2], st[3], st[4],
      [p \in Procs |-> ZeroResp]>>

\* lines 36-38: auth_init, whose body is empty
auth_init(st) == st

\* the caller calls auth_init between two calls of auth_compute_response
AuthInit ==
    /\ \A p \in Procs : pc[p] = "idle"
    /\ inits < MaxInits
    /\ inits' = inits + 1
    /\ LET st == auth_init(Storage)
       IN  /\ agent' = st[1]
           /\ rng_state' = st[2]
           /\ seed_state' = st[3]
           /\ returned' = st[4]
           /\ resp' = st[5]
    /\ UNCHANGED <<pc, frame, loopvars, draws, evolves, ncalls, spawned,
                   overlapped, first, last, vres, helper>>

\* the calls of the test of verification, with auth_init in between
InitArgs ==
    { [challenge |-> Ramp(7, f0_5), length |-> 7, secret |-> EdgeSecret] }

NextInit ==
    \/ AuthInit
    \/ \E a \in InitArgs : Call(1, a)
    \/ Divide(1)
    \/ Step(1)
    \/ Reduce(1)
    \/ \E d \in Shifts, e \in Expected(1), tol \in Tolerances :
          Verify(1, "psi", d, e, tol)
    \/ Finish(1)

SpecInit == Init /\ [][NextInit]_vars

(***************************************************************************)
(* Neighbouring secrets.  The caller computes the response of a base       *)
(* secret and then, for the same challenge, that of a secret that differs  *)
(* from it in one component: k by 0.001, gamma by 0.001 or the seed by 1.  *)
(***************************************************************************)
\* seed + 1 on uint32_t
SeedPlusOne(x) ==
    IF x[2] + 1 < W16 THEN U32(x[1], x[2] + 1) ELSE U32((x[1] + 1) % W16, 0)

\* the secrets vary_k, vary_g and vary_s of a base secret
Neighbours(base) ==
    { [base EXCEPT !.k = FAdd(@, f0_001)],
      [base EXCEPT !.gamma = FAdd(@, f0_001)],
      [base EXCEPT !.seed = SeedPlusOne(@)] }

\* a secret of the expected range with a stronger damping gamma
DampedSecret == [k |-> f2_5, gamma |-> f2_0, seed |-> U32(0, 12345)]

\* the caller's calls: the base secret first, then its neighbours
NextNeighbours ==
    \/ \E sec \in (IF first.made THEN Neighbours(first.secret)
                   ELSE {DampedSecret}) :
          Call(1, [challenge |-> Constant(CHALLENGE_LENGTH, f1_5),
                   length |-> CHALLENGE_LENGTH, secret |-> sec])
    \/ Divide(1)
    \/ Step(1)
    \/ Reduce(1)
    \/ Finish(1)

SpecNeighbours == Init /\ [][NextNeighbours]_vars

(***************************************************************************)
(* One invocation with a secret that drives the main state up to its       *)
(* wraps: a large coupling k or a small damping gamma.                     *)
(***************************************************************************)
\* a strong coupling without damping: I passes 5 within the first steps
StiffSecret == [k |-> IntToFloat(50), gamma |-> 0, seed |-> U32(0, 1)]
\* a weak damping: Psi grows past 3 and then past 5
SlackSecret == [k |-> f5_5, gamma |-> f0_05, seed |-> U32(0, 12345)]

WrapSecrets == {StiffSecret, SlackSecret, RefSecret}

NextSecrets ==
    \/ \E sec \in WrapSecrets :
          /\ ncalls = 0
          /\ Call(1, [challenge |-> Ramp(CHALLENGE_LENGTH, f0_01),
                      length |-> CHALLENGE_LENGTH, secret |-> sec])
    \/ Divide(1)
    \/ Step(1)
    \/ Reduce(1)
    \/ Finish(1)

SpecSecrets == Init /\ [][NextSecrets]_vars

(***************************************************************************)
(* fast_tanh called on its own, on an argument given beforehand            *)
(***************************************************************************)
\* everything but helper: the state of auth_compute_response and its caller
authvars == <<pc, frame, agent, rng_state, seed_state, loopvars, returned,
              resp, draws, evolves, ncalls, spawned, first, inits, vres,
              ghostvars>>

\* the arguments: a grid over [-4, 4], the neighbours of the two branch
\* points, large values, the infinities and the NaN
TanhInputs ==
    {Lit(n, 20) : n \in -80 .. 80}
        \cup {f3_0 - 1, f3_0 + 1, fm3_0 - 1, fm3_0 + 1}
        \cup {Huge, -Huge, PInf, NInf, NaN}

InitTanh ==
    \E x \in TanhInputs :
        InitHelper(ZeroSecret, U32(0, 0),
                   [name |-> "none", x |-> x, out |-> 0])

\* lines 50-56: fast_tanh(x)
ApplyTanh ==
    /\ helper.name = "none"
    /\ helper' = [helper EXCEPT !.name = "fast_tanh",
                                !.out = fast_tanh(helper.x)]
    /\ UNCHANGED authvars

NextTanh == ApplyTanh

SpecTanh == InitTanh /\ [][NextTanh]_vars

(***************************************************************************)
(* The client (client.c): parse_challenge, statement by statement, and     *)
(* the call of auth_compute_response on what it parsed.  A C string is a   *)
(* sequence of characters; the position past its last character holds     *)
(* the terminating NUL, and the pointer NULL is the position 0.            *)
(***************************************************************************)
NUL == ""

\* the text "perturbations":[ that parse_challenge looks for
Marker ==
    <<"\"", "p", "e", "r", "t", "u", "r", "b", "a", "t", "i", "o", "n", "s",
      "\"", ":", "[">>

\* *ptr
CharAt(str, ptr) == IF ptr > Len(str) THEN NUL ELSE str[ptr]

\* the least element of a nonempty set of positions
Least(ps) == CHOOSE i \in ps : \A j \in ps : i <= j

\* strstr(str, needle): the first position where needle occurs, or NULL
strstr(str, needle) ==
    LET at == {i \in 1 .. Len(str) - Len(needle) + 1 :
                  SubSeq(str, i, i + Len(needle) - 1) = needle}
    IN  IF at = {} THEN 0 ELSE Least(at)

\* strchr(ptr, c): the first position from ptr on that holds c, or NULL
strchr(str, ptr, c) ==
    LET at == {i \in ptr .. Len(str) : str[i] = c}
    IN  IF at = {} THEN 0 ELSE Least(at)

Digits == <<"0", "1", "2", "3", "4", "5", "6", "7", "8", "9">>
IsDigit(c) == \E d \in 1 .. 10 : Digits[d] = c
DigitValue(c) == (CHOOSE d \in 1 .. 10 : Digits[d] = c) - 1

\* the position that follows the digits that start at ptr
DigitsEnd(str, ptr) ==
    Least({i \in ptr .. Len(str) + 1 : ~IsDigit(CharAt(str, i))})

\* the number that the digits of the positions from .. to - 1 spell
RECURSIVE NumberOf(_, _, _)
NumberOf(str, from, to) ==
    IF from >= to THEN 0
    ELSE NumberOf(str, from, to - 1) * 10 + DigitValue(str[to - 1])

\* atof(ptr) for a text without sign, blanks or exponent: the digits, a
\* point and the digits after it; 0 if no number starts at ptr
atof(str, ptr) ==
    LET e == DigitsEnd(str, ptr)
        f == IF CharAt(str, e) = "." THEN DigitsEnd(str, e + 1) ELSE e + 1
    IN  IntToFloat(NumberOf(str, ptr, e))
            + (NumberOf(str, e + 1, f) * S) \div (10 ^ (f - e - 1))

\* the text, n times
RECURSIVE Repeat(_, _)
Repeat(str, n) ==
    IF n = 0 THEN <<>>
    ELSE IF n = 1 THEN str
    ELSE Repeat(str, n \div 2) \o Repeat(str, n - n \div 2)

\* the texts the server may answer with: the mock answer of get_challenge,
\* an answer cut off after the marker, an empty array, an answer cut off
\* after a comma, an answer without the marker, the empty text, and arrays
\* of 49, 50 and 60 numbers
Numbers(n) == Repeat(<<"1", ".", "5", ",">>, n - 1) \o <<"2", "]", "}">>
JsonInputs ==
    { <<"{">> \o Marker
          \o <<"1", ".", "2", ",", "0", ".", "8", ",", "2", ".", "1", ",",
               ".", ".", ".", "]", "}">>,
      <<"{">> \o Marker,
      <<"{">> \o Marker \o <<"]", "}">>,
      <<"{">> \o Marker \o <<"1", ".", "5", ",">>,
      <<"{", "\"", "o", "\"", ":", "[", "1", ",", "2", "]", "}">>,
      <<>>,
      <<"{">> \o Marker \o Numbers(CHALLENGE_LENGTH - 1),
      <<"{">> \o Marker \o Numbers(CHALLENGE_LENGTH),
      <<"{">> \o Marker \o Numbers(CHALLENGE_LENGTH + 10) }

\* what main's locals challenge and length hold before parse_challenge is
\* called: they are not initialised
StackFloats == {0, Huge}
StackLength == -1

\* main, lines 94-103: the answer is in hand, the locals are declared
InitClient ==
    \E json \in JsonInputs, v \in StackFloats :
        InitHelper(ZeroSecret, U32(0, 0),
                   [name |-> "parse_challenge", at |-> "call", json |-> json,
                    ptr |-> 0, ret |-> 0,
                    challenge |-> Constant(CHALLENGE_LENGTH, v),
                    length |-> StackLength, written |-> {}])

\* client.c lines 28-32: the search of the marker
ParseEnter ==
    /\ helper.name = "parse_challenge"
    /\ helper.at = "call"
    /\ LET ptr == strstr(helper.json, Marker)
       IN  helper' =
               IF ptr = 0
               THEN [helper EXCEPT !.at = "returned", !.ret = 0]
               ELSE [helper EXCEPT !.at = "while", !.ptr = ptr + 17,
                                   !.length = 0]
    /\ UNCHANGED authvars

\* client.c line 34: while (*ptr && *length < CHALLENGE_LENGTH)
ParseGuard(h) ==
    CharAt(h.json, h.ptr) # NUL /\ h.length < CHALLENGE_LENGTH

\* client.c lines 35-40: one iteration of the loop; written collects the
\* indices of challenge[] that have been stored to
ParseLoop ==
    /\ helper.name = "parse_challenge"
    /\ helper.at = "while"
    /\ ParseGuard(helper)
    /\ LET next == strchr(helper.json, helper.ptr, ",")
           stored ==
               [helper EXCEPT
                   !.challenge =
                       IF helper.length < CHALLENGE_LENGTH
                       THEN [@ EXCEPT ![helper.length + 1] =
                                 atof(helper.json, helper.ptr)]
                       ELSE @,
                   !.written = @ \cup {helper.length},
                   !.length = @ + 1]
       IN  helper' =
               IF next = 0
               THEN [stored EXCEPT !.at = "returned", !.ret = 1]
               ELSE [stored EXCEPT !.ptr = next + 1]
    /\ UNCHANGED authvars

\* client.c line 43: the loop is left by its condition
ParseReturn ==
    /\ helper.name = "parse_challenge"
    /\ helper.at = "while"
    /\ ~ParseGuard(helper)
    /\ helper' = [helper EXCEPT !.at = "returned", !.ret = 1]
    /\ UNCHANGED authvars

\* main, lines 104-117: the challenge parsed is handed to
\* auth_compute_response, with the length parse_challenge reported
ClientCompute ==
    /\ helper.name = "parse_challenge"
    /\ helper.at = "returned"
    /\ helper.ret # 0
    /\ ncalls = 0
    /\ Call(1, [challenge |-> helper.challenge, length |-> helper.length,
                secret |-> RefSecret])

\* main, lines 104-108: parse_challenge failed, the client exits
ClientFail ==
    /\ helper.name = "parse_challenge"
    /\ helper.at = "returned"
    /\ helper.ret = 0
    /\ helper' = [helper EXCEPT !.at = "exit"]
    /\ UNCHANGED authvars

NextClient ==
    \/ ParseEnter
    \/ ParseLoop
    \/ ParseReturn
    \/ ClientCompute
    \/ ClientFail
    \/ Divide(1)
    \/ DivideTrap(1)
    \/ Step(1)
    \/ Reduce(1)
    \/ Finish(1)

SpecClient == InitClient /\ [][NextClient]_vars

(***************************************************************************)
(* The properties                                                          *)
(***************************************************************************)
\* whether invocation p is in a call, later than the first call, that was
\* given the arguments of the first call
SameArgsAsFirst(p) ==
    /\ first.made
    /\ pc[p] # "idle"
    /\ challenge[p] = first.challenge
    /\ length[p] = first.length
    /\ secret[p] = first.secret

\* whether the floats a and b differ by less than 1e-7: at the resolution
\* of this number format, by exactly 0; false if the difference is a NaN
SameFloat(a, b) == FLe(fabsf(FSub(a, b)), 0)

\* C1: Determinism.  For every secret and every nonempty challenge, a call
\* of auth_compute_response with the arguments of an earlier call returns
\* the same Response: in each of the 8 fields the two differ by less than
\* 1e-7, whatever calls were made in between.
C1_Determinism ==
    \A p \in Procs :
        (returned[p] /\ SameArgsAsFirst(p) /\ length[p] >= 1) =>
            \A f \in Fields : SameFloat(resp[p][f], first.resp[f])

\* No state is carried from one call to the next: a call with the arguments
\* of the first call returns its Response value for value, a NaN where the
\* first returned a NaN, and has made the same draws and steps.
Repeatable ==
    \A p \in Procs :
        (returned[p] /\ SameArgsAsFirst(p)) =>
            /\ resp[p] = first.resp
            /\ draws[p] = first.draws
            /\ evolves[p] = first.evolves

\* whether field f of received and of expected are numbers (neither a NaN
\* nor an infinity) whose distance is strictly less than tol
FieldWithin(received, expected, tol, f) ==
    /\ IsFinite(received[f])
    /\ IsFinite(expected[f])
    /\ IAbs(received[f] - expected[f]) < tol

\* C2: auth_verify returns true if and only if every one of the 8 fields of
\* received differs from that of expected by strictly less than tolerance; one
\* field at a difference >= tolerance makes the result false.
C2_VerifyContract ==
    vres.called =>
        ((vres.result # 0) <=>
            \A f \in Fields :
                FieldWithin(vres.received, vres.expected, vres.tolerance, f))

\* auth_verify has rejected a response at a positive tolerance that differs
\* from the expected one in a single field, by exactly the tolerance
C2_Witness ==
    /\ vres.called
    /\ vres.result = 0
    /\ vres.tolerance > 0
    /\ \E f \in Fields :
          /\ IsFinite(vres.expected[f])
          /\ vres.received[f] = vres.expected[f] + vres.tolerance
          /\ \A g \in Fields \ {f} :
                /\ IsFinite(vres.expected[g])
                /\ vres.received[g] = vres.expected[g]

\* C3: Reflexivity.  For every Response a that auth_compute_response returns
\* and every tolerance t > 0, auth_verify(a, a, t) is true.
C3_Reflexivity ==
    (/\ vres.called
     /\ vres.received = vres.expected
     /\ vres.received = resp[1]
     /\ vres.tolerance > 0) => vres.result # 0

\* C4: a call of auth_compute_response with a challenge of length 0 is
\* rejected: it never reaches the division EVOLUTION_STEPS / length, never
\* enters the loop with some steps_per_challenge, and returns no Response.
C4_EmptyChallengeRejected ==
    \A p \in Procs :
        (pc[p] # "idle" /\ length[p] = 0) =>
            (pc[p] \notin {"trap", "loop", "done"} /\ ~returned[p])

\* C5: auth_verify called with a tolerance <= 0 ends in an error outcome, one
\* its caller can tell from the result "false" (0) of a mismatch.
C5_InvalidToleranceSignalled ==
    (vres.called /\ vres.tolerance <= 0) => vres.result \notin {0, 1}

\* C6: when the length given to auth_compute_response is not >= 1, nothing
\* is computed: no generator draw and no step is made, and no Response is
\* returned (none is reduced from the just-initialised agent).
C6_NoPartialComputation ==
    \A p \in Procs :
        (pc[p] # "idle" /\ length[p] < 1) =>
            (draws[p] = 0 /\ evolves[p] = 0 /\ ~returned[p])

\* C7: Total acceptance and termination.  Every call with a length >= 1,
\* whatever its secret, goes on to return a Response.
C7_Termination ==
    \A p \in {1} : (pc[p] = "div" /\ length[p] >= 1) ~> returned[p]

\* a call with the seed 0 has returned after the steps its length asks for
C7_Witness ==
    /\ returned[1]
    /\ length[1] >= 1
    /\ secret[1].seed = U32(0, 0)
    /\ evolves[1] = EVOLUTION_STEPS

\* whether the agent of invocation p is initialised
AgentReady(p) == pc[p] \in {"div", "trap", "loop", "done"}

\* C8: Boundedness.  Once the agent is initialised and after every step,
\* |I| <= 5, |Psi| <= 5, |Phi[i]| <= 3 for all i, |Lx|, |Ly|, |Lz| <= 20 and
\* |entropy| < 1000.
C8_Bounded ==
    \A p \in Procs :
        AgentReady(p) =>
            /\ FLe(fabsf(agent[p].I), f5_0)
            /\ FLe(fabsf(agent[p].Psi), f5_0)
            /\ \A j \in 0 .. PHI_SIZE - 1 : FLe(fabsf(agent[p].Phi[j]), f3_0)
            /\ FLe(fabsf(agent[p].Lx), f20_0)
            /\ FLe(fabsf(agent[p].Ly), f20_0)
            /\ FLe(fabsf(agent[p].Lz), f20_0)
            /\ FLt(fabsf(agent[p].entropy), f1000_0)

\* C10: Input-independent work.  A call that has returned has made as many
\* steps and as many generator draws as the first call if their lengths are
\* equal, whatever the challenge values and the secrets of the two.
C10_InputIndependentWork ==
    \A p \in Procs :
        (returned[p] /\ pc[p] # "idle" /\ first.made
            /\ length[p] = first.length) =>
            (evolves[p] = first.evolves /\ draws[p] = first.draws)

\* two calls of the same length, with different challenge values and
\* different secrets, have both run their steps
C10_Witness ==
    /\ returned[1]
    /\ pc[1] = "done"
    /\ first.made
    /\ length[1] = first.length
    /\ length[1] >= 1
    /\ challenge[1] # first.challenge
    /\ secret[1] # first.secret
    /\ evolves[1] > 0

\* C11: Frame.  auth_compute_response modifies neither the secret (k, gamma,
\* seed: the generator runs on a private copy of the seed) nor an element of
\* the challenge, from its entry to its return; auth_verify modifies neither
\* of the two Responses it is given.
C11_InputsUnmodified ==
    [][/\ \A p \in Procs :
             pc[p] # "idle" =>
                 /\ secret'[p] = secret[p]
                 /\ challenge'[p] = challenge[p]
                 /\ length'[p] = length[p]
       /\ (vres'.called /\ ~vres.called) =>
             /\ resp' = resp
             /\ first' = first
             /\ vres'.expected \in Expected(1)]_vars

\* a call with a nonzero seed has returned after EVOLUTION_STEPS generator
\* draws of its loop, its secret and its challenge being those it was given,
\* and auth_verify has compared its Response with that of the first call
C11_Witness ==
    /\ pc[1] = "done"
    /\ evolves[1] = EVOLUTION_STEPS
    /\ secret[1] = RefSecret
    /\ seed_state[SeedCell(1)] # secret[1].seed
    /\ challenge[1] = Constant(CHALLENGE_LENGTH, f1_5)
    /\ first.made
    /\ vres.called
    /\ vres.expected = first.resp

\* max(1, floor(EVOLUTION_STEPS / n)) for a length n >= 1, by the quotient
\* and the remainder of the naturals
MaxOneFloor(n) ==
    IF n > EVOLUTION_STEPS THEN 1
    ELSE CHOOSE q \in 1 .. EVOLUTION_STEPS :
            q * n <= EVOLUTION_STEPS /\ EVOLUTION_STEPS < (q + 1) * n

\* C14: Step count.  For a challenge of length n >= 1, steps_per_challenge
\* is max(1, floor(200 / n)), by integer floor division, and a call makes
\* exactly n * steps_per_challenge calls of evolve_step: 200 for n = 50, 196
\* for n = 7, n for every n > 100.
C14_StepCount ==
    \A p \in Procs :
        (pc[p] \in {"loop", "done"} /\ length[p] >= 1) =>
            /\ steps_per_challenge[p] = MaxOneFloor(length[p])
            /\ returned[p] =>
                  /\ evolves[p] = length[p] * steps_per_challenge[p]
                  /\ length[p] = 50 => evolves[p] = 200
                  /\ length[p] = 7 => evolves[p] = 196
                  /\ length[p] > 100 => evolves[p] = length[p]

\* a call with a challenge of 7 elements, which does not divide 200, has
\* returned after 7 * 28 steps
C14_Witness ==
    /\ returned[1]
    /\ length[1] = 7
    /\ steps_per_challenge[1] = 28
    /\ evolves[1] = 196

\* C15 as stated: the number of evolve_step calls of one call of
\* auth_compute_response never exceeds EVOLUTION_STEPS (200), whatever the
\* length of the nonempty challenge.
C15_AtMostEvolutionSteps ==
    \A p \in Procs : length[p] >= 1 => evolves[p] <= EVOLUTION_STEPS

\* C15, amended: the number of evolve_step calls of one call never exceeds
\* the larger of EVOLUTION_STEPS and the length n of the nonempty challenge;
\* a call with n > EVOLUTION_STEPS returns after n calls, one for each
\* element.
C15_AtMostStepsOrLength ==
    \A p \in Procs :
        length[p] >= 1 =>
            /\ evolves[p] <= EVOLUTION_STEPS \/ evolves[p] <= length[p]
            /\ (returned[p] /\ length[p] > EVOLUTION_STEPS) =>
                  evolves[p] = length[p]

\* a call with a challenge of EVOLUTION_STEPS + 1 elements has returned
\* after more than EVOLUTION_STEPS steps
C15_Witness ==
    /\ returned[1]
    /\ length[1] > EVOLUTION_STEPS
    /\ evolves[1] > EVOLUTION_STEPS

\* C16: Challenge consumption order.  total_step starts at 0 and is
\* incremented by exactly 1 after each evolve_step call; the step numbered m
\* is driven by challenge[m div steps_per_challenge] and receives m as its
\* step index, so the elements are consumed in increasing order, each for
\* steps_per_challenge consecutive steps, and the last step of a call is
\* driven by the last element: every element drives at least one step.
C16_ConsumptionOrder ==
    \A p \in Procs :
        (pc[p] \in {"loop", "done"} /\ length[p] >= 1) =>
            /\ total_step[p] = evolves[p]
            /\ evolves[p] = 0 => last[p] = NoStep
            /\ evolves[p] > 0 =>
                  /\ last[p].step = evolves[p] - 1
                  /\ last[p].t = last[p].step \div steps_per_challenge[p]
                  /\ last[p].t < length[p]
            /\ returned[p] =>
                  /\ last[p].t = length[p] - 1
                  /\ evolves[p] = length[p] * steps_per_challenge[p]

\* the last of the 3 steps that the second of 64 challenge elements drives
\* has been made: the step numbered 5
C16_Witness ==
    /\ pc[1] = "loop"
    /\ length[1] = 64
    /\ steps_per_challenge[1] = 3
    /\ last[1].t = 1
    /\ last[1].step = 5
    /\ t[1] = 2

\* C17: each evolve_step call advances the generator state of the evolution
\* by exactly one draw: the state is secret.seed before the first step, each
\* step replaces it by the generator's next value and takes its noise from
\* that value only, and a call that returns after m steps leaves the state
\* that m applications of the generator make of secret.seed.
C17_OneDrawPerStep ==
    /\ [](\A p \in Procs :
             /\ (pc[p] \in {"div", "loop"} /\ evolves[p] = 0) =>
                   seed_state[SeedCell(p)] = secret[p].seed
             /\ (returned[p] /\ evolves[p] > 0) =>
                   seed_state[SeedCell(p)] =
                       DrawSeq(secret[p].seed, evolves[p])[evolves[p]])
    /\ [][\A p \in Procs :
             evolves'[p] = evolves[p] + 1 =>
                 /\ seed_state'[SeedCell(p)] =
                        xorshift32(seed_state[SeedCell(p)])
                 /\ draws'[p] = draws[p] + 1
                 /\ last'[p].seed_noise =
                        Normalise(seed_state'[SeedCell(p)], f0_1)]_vars

\* a call has returned after EVOLUTION_STEPS + 1 steps, its generator
\* state being neither the seed nor the state the initialisation left
C17_Witness ==
    /\ returned[1]
    /\ evolves[1] = EVOLUTION_STEPS + 1
    /\ draws[1] = InitDraws + EVOLUTION_STEPS + 1
    /\ seed_state[SeedCell(1)] # secret[1].seed
    /\ seed_state[SeedCell(1)] # rng_state[1]

\* bit i of the 32-bit value x
Bit(x, i) ==
    IF i < 16 THEN (x[2] \div 2 ^ i) % 2 ELSE (x[1] \div 2 ^ (i - 16)) % 2

Bits(x) == [i \in 0 .. 31 |-> Bit(x, i)]

\* b ^ (b << n) and b ^ (b >> n) on the 32 bits b, bits shifted out lost
XorShiftLeft(b, n) ==
    [i \in 0 .. 31 |-> (b[i] + (IF i >= n THEN b[i - n] ELSE 0)) % 2]

XorShiftRight(b, n) ==
    [i \in 0 .. 31 |-> (b[i] + (IF i + n <= 31 THEN b[i + n] ELSE 0)) % 2]

\* the generator applied n times to the state x
Iterate(x, n) == IF n = 0 THEN x ELSE DrawSeq(x, n)[n]

\* C18: the generator is xorshift32 on 32-bit unsigned values.  One call
\* computes x ^= x << 13; x ^= x >> 17; x ^= x << 5, each intermediate
\* truncated to 32 bits, and stores and returns the result; the output
\* sequence is a function of the initial state only: the n-th value is the
\* n-fold application to the initial state (3336926330 after one call from
\* 12345, 0 for ever from 0).
C18_Xorshift32 ==
    /\ [](/\ seed_state[1] \in (0 .. W16 - 1) \X (0 .. W16 - 1)
          /\ pc[1] = "idle" =>
                /\ seed_state[1] = Iterate(secret[1].seed, draws[1])
                /\ (secret[1].seed = U32(0, 12345) /\ draws[1] = 1) =>
                      seed_state[1] = U32(50917, 29818)
                /\ secret[1].seed = U32(0, 0) => seed_state[1] = U32(0, 0))
    /\ [][draws'[1] = draws[1] + 1 =>
             Bits(seed_state'[1]) =
                 XorShiftLeft(
                     XorShiftRight(XorShiftLeft(Bits(seed_state[1]), 13),
                                   17),
                     5)]_vars

\* xorshift32 has been called MaxDraws times from a state with all 32 bits
\* set, and has carried bits from the low half into the high half
C18_Witness ==
    /\ pc[1] = "idle"
    /\ secret[1].seed = U32(65535, 65535)
    /\ draws[1] = MaxDraws
    /\ seed_state[1] # secret[1].seed
    /\ seed_state[1][1] # 0

\* C19: every normalised generator draw, the seed_noise of a step and each
\* initial Phi[i], lies in the half-open interval [0, 0.1): it is >= 0 and
\* strictly less than 0.1, for every 32-bit generator output.
C19_NormalisedBelowTenth ==
    /\ (pc[1] = "idle" /\ draws[1] > 0) =>
          (FLe(0, last[1].seed_noise) /\ FLt(last[1].seed_noise, f0_1))
    /\ pc[1] = "div" =>
          \A j \in 0 .. PHI_SIZE - 1 :
              FLe(0, agent[1].Phi[j]) /\ FLt(agent[1].Phi[j], f0_1)

\* (draw & 0xFFFF) / 65535, the draw normalised to the unit interval
UnitDraw(draw) == FDiv(IntToFloat(Low16(draw)), IntToFloat(65535))

\* whether agent a is the one that the draws d, the sequence of the values
\* of the generator, initialise
InitialisedFrom(a, d) ==
    /\ a.I = f0_1
    /\ a.R = f0_1
    /\ a.Psi = f0_1
    /\ a.entropy = 0
    /\ \A j \in 0 .. PHI_SIZE - 1 : a.Phi[j] = FMul(UnitDraw(d[j + 1]), f0_1)
    /\ a.Lx = FAdd(f1_0, FMul(f0_01, UnitDraw(d[101])))
    /\ a.Ly = FAdd(f1_0, FMul(f0_01, UnitDraw(d[102])))
    /\ a.Lz = FAdd(f1_0, FMul(f0_01, UnitDraw(d[103])))

\* C20: State initialisation from the seed.  After init_agent_state,
\* I = R = Psi = 0.1 and entropy = 0; Phi[i] (i = 0..99) is the (i+1)-th
\* generator draw from secret.seed, normalised (its low 16 bits over 65535,
\* times 0.1); Lx, Ly, Lz are 1.0 plus 0.01 times the 101st, 102nd and 103rd
\* draws, normalised to the unit interval, in that order; exactly 103 draws
\* are consumed.
C20_InitFromSeed ==
    pc[1] = "div" =>
        /\ InitialisedFrom(agent[1], DrawSeq(secret[1].seed, 103))
        /\ draws[1] = 103
        /\ rng_state[1] = Iterate(secret[1].seed, 103)
        /\ seed_state[1] = secret[1].seed

\* init_agent_state has run with the seed 12345: Phi[0] is 0.045 and the
\* three Lorenz coordinates are 1.007, 1.000 and 1.004
C20_Witness ==
    /\ pc[1] = "div"
    /\ secret[1].seed = U32(0, 12345)
    /\ draws[1] = InitDraws
    /\ agent[1].Phi[0] = Lit(45, 1000)
    /\ agent[1].Lx = Lit(1007, 1000)
    /\ agent[1].Ly = f1_0
    /\ agent[1].Lz = Lit(1004, 1000)

\* C13: auth_init is a no-op.  A call of auth_init changes no state, and
\* the Response of auth_compute_response and the result of auth_verify are
\* the same whether auth_init has been called zero, one or many times: a
\* call with the arguments of the first call returns its Response, and
\* auth_verify returns for it what it returns for the Response of the first.
C13_AuthInitNoOp ==
    /\ [][inits' # inits =>
            UNCHANGED <<pc, frame, Storage, loopvars, draws, evolves, ncalls,
                        spawned, overlapped, first, last, vres, helper>>]_vars
    /\ [](\A p \in Procs :
             (returned[p] /\ SameArgsAsFirst(p)) =>
                 /\ resp[p] = first.resp
                 /\ vres.called =>
                       vres.result =
                           auth_verify([first.resp EXCEPT !.psi =
                                           FAdd(@, FSub(vres.received.psi,
                                                        resp[p].psi))],
                                       first.resp, vres.tolerance))

\* the first call was made before any call of auth_init; a call with the
\* same arguments, made after auth_init was called more than once, has
\* returned and auth_verify has accepted its Response
C13_Witness ==
    /\ first.made
    /\ first.inits = 0
    /\ inits > 1
    /\ returned[1]
    /\ SameArgsAsFirst(1)
    /\ evolves[1] > 0
    /\ vres.called
    /\ vres.result = 1

\* the threshold 0.0001f of the sensitivity test: below the resolution of
\* this number format, in which two floats differ by more than it if and
\* only if they differ
f0_0001 == Lit(1, 10000)

SamePoint(p, q) ==
    /\ pc[p] = pc[q]
    /\ evolves[p] = evolves[q]
    /\ challenge[p] = challenge[q]
    /\ length[p] = length[q]
    /\ secret[p] = secret[q]

\* C9: Concurrent invocations do not interfere.  Whatever the interleaving
\* of the statements of the invocations, each one returns the Response, and
\* has made the draws and the steps, of the same call run alone; and on the
\* way no invocation sees a statement of another: two invocations at the
\* same point of the same call hold the same agent and generator state.
C9_NoInterference ==
    /\ \A p \in spawned :
          (returned[p] /\ SameArgsAsFirst(p)) =>
              /\ resp[p] = first.resp
              /\ draws[p] = first.draws
              /\ evolves[p] = first.evolves
    /\ \A p, q \in spawned :
          SamePoint(p, q) =>
              /\ agent[p] = agent[q]
              /\ seed_state[SeedCell(p)] = seed_state[SeedCell(q)]

\* both invocations have returned after statements of the two interleaved:
\* each had made steps of its loop before the other was through its own
C9_Witness ==
    /\ spawned = Procs
    /\ overlapped
    /\ \A p \in Procs : returned[p] /\ evolves[p] = LongLength
    /\ first.made

\* whether b is the agent one evolve_step call makes of the agent a, with
\* the input phi_input and the noise seed_noise, told field by field from
\* the values before (a) and after (b) the call
StepRelation(a, b, k, gamma, phi_input, seed_noise) ==
    LET lorenz == LorenzUpdate(a, phi_input)
        kick == ChaosKick([a EXCEPT !.Lx = b.Lx])
        main == PrimaryDynamics(a, k, gamma, kick, seed_noise)
    IN  /\ b.Lx = lorenz.Lx
        /\ b.Ly = lorenz.Ly
        /\ b.Lz = lorenz.Lz
        /\ b.I = main.I
        /\ b.R = main.R
        /\ b.Psi = main.Psi
        /\ \A j \in 0 .. PHI_SIZE - 1 :
              b.Phi[j] = PhiUpdate(a.Phi[j], j, b.Psi, b.Lx, phi_input)
        /\ b.entropy =
              fmodf(FAdd(a.entropy, mix_nonlinear(b.Psi, b.Lx, phi_input)),
                    f1000_0)

\* C21: within one evolve_step call the sub-steps run in the order Lorenz
\* update and wrap, logistic chaos injection, noise draw, primary dynamics,
\* wrap of I and Psi, Phi field evolution and wrap, entropy accumulation.
\* Each later sub-step reads what the earlier ones wrote: the logistic
\* parameter, the Phi position factor and the entropy mix use the updated
\* and wrapped Lx, the Phi source term and the entropy mix the updated and
\* wrapped Psi; dI, dR and dPsi are computed from the I, R, Psi and Phi of
\* before the call.
C21_SubStepOrder ==
    [][\A p \in Procs :
          evolves'[p] = evolves[p] + 1 =>
              StepRelation(agent[p], agent'[p], secret[p].k, secret[p].gamma,
                           ModifiedChallenge(challenge[p][t[p] + 1],
                                             total_step[p]),
                           last'[p].seed_noise)]_vars

\* half of the steps of a call have been made, and Lx, Psi, Phi[0] and the
\* entropy all differ from their values before the first step
C21_Witness ==
    /\ pc[1] = "loop"
    /\ evolves[1] = EVOLUTION_STEPS \div 2
    /\ length[1] = CHALLENGE_LENGTH
    /\ agent[1].Psi # f0_1
    /\ agent[1].Lx # init_agent_state(secret[1].seed).agent.Lx
    /\ agent[1].Phi[0] # init_agent_state(secret[1].seed).agent.Phi[0]
    /\ agent[1].entropy # 0


\* whether <<Lx, Ly, Lz>> of b are those of a after one Euler step of the
\* Lorenz system with the coefficients sigma, rho, beta and the step dt,
\* driven by phi_input, each coordinate wrapped into [-20, 20]
LorenzWith(a, b, phi_input, sigma, rho, beta, dt) ==
    /\ b.Lx = Wrap(FAdd(a.Lx,
                        FMul(FAdd(FMul(sigma, FSub(a.Ly, a.Lx)),
                                  FMul(phi_input, f2_0)), dt)),
                   f1_0, f20_0)
    /\ b.Ly = Wrap(FAdd(a.Ly,
                        FMul(FSub(FMul(a.Lx, FSub(rho, a.Lz)), a.Ly), dt)),
                   f1_0, f20_0)
    /\ b.Lz = Wrap(FAdd(a.Lz,
                        FMul(FSub(FMul(a.Lx, a.Ly), FMul(beta, a.Lz)), dt)),
                   f1_0, f20_0)

\* C22 as stated: the Lorenz update of every evolve_step call uses the
\* coefficients sigma = 10.0, rho = 28.0, beta = 2.667 and the step
\* dt = 0.02.
C22_LorenzCoefficients ==
    [][\A p \in Procs :
          evolves'[p] = evolves[p] + 1 =>
              LorenzWith(agent[p], agent'[p],
                         ModifiedChallenge(challenge[p][t[p] + 1],
                                           total_step[p]),
                         Lit(10, 1), Lit(28, 1), Lit(2667, 1000),
                         Lit(2, 100))]_vars

\* C22, amended: the Lorenz update of every evolve_step call uses the
\* coefficients sigma = 10.0, rho = 28.0, beta = 2.666667 (the float next to
\* 8/3, not 2.667) and the step dt = 0.02.
C22_LorenzCoefficientsOfSource ==
    [][\A p \in Procs :
          evolves'[p] = evolves[p] + 1 =>
              LorenzWith(agent[p], agent'[p],
                         ModifiedChallenge(challenge[p][t[p] + 1],
                                           total_step[p]),
                         Lit(10, 1), Lit(28, 1), Lit(2666667, 1000000),
                         Lit(2, 100))]_vars

\* a call has made all its steps and the Lorenz coordinates, Lz above 10,
\* have left the neighbourhood of their initial values
C22_Witness ==
    /\ returned[1]
    /\ evolves[1] = EVOLUTION_STEPS
    /\ FGt(agent[1].Lz, f10_0)
    /\ FGt(fabsf(FSub(agent[1].Lx, f1_0)), f1_0)


(***************************************************************************)
(* The wraps of the main state                                             *)
(***************************************************************************)
\* w is the remainder of v modulo m that carries the sign of v (fmodf of an
\* infinity or a NaN has no remainder and is a NaN)
IsRemainder(w, v, m) ==
    IF IsFinite(v)
    THEN /\ IsFinite(w)
         /\ IAbs(w) < m
         /\ (w = 0 \/ ISign(w) = ISign(v))
         /\ (v - w) % m = 0
    ELSE IsNaN(w)

\* w is what lines 148-149 leave of the value v of I or of Psi
MainWrapOf(w, v) ==
    IF FGt(fabsf(v), f5_0) THEN IsRemainder(w, FMul(v, f1_5), f5_0)
    ELSE w = v

\* the agent of p as lines 143-145 of the step taken from this state leave
\* it, given the Lx the step ends with and the noise it drew
RawOfStep(p, Lx, seed_noise) ==
    PrimaryUpdate(agent[p], secret[p].k, secret[p].gamma,
                  ChaosKick([agent[p] EXCEPT !.Lx = Lx]), seed_noise)

\* C23: in every step, a value of I or of Psi whose magnitude exceeds 5
\* after the update is replaced by the remainder of value * 1.5 modulo 5
\* that carries the sign of the value, a value of magnitude at most 5 is
\* left as it is, and R keeps the value the update gave it: no wrap
\* touches R.
C23_MainWrap ==
    [][\A p \in Procs :
          evolves'[p] = evolves[p] + 1 =>
              LET raw == RawOfStep(p, agent'[p].Lx, last'[p].seed_noise)
              IN  /\ MainWrapOf(agent'[p].I, raw.I)
                  /\ MainWrapOf(agent'[p].Psi, raw.Psi)
                  /\ agent'[p].R = raw.R]_vars

\* the last step of invocation 1 left a finite I of magnitude above 5,
\* which the wrap replaced, and a Psi within the bound, which it kept
C23_Witness ==
    /\ pc[1] = "loop"
    /\ last[1].step >= 0
    /\ IsFinite(last[1].I)
    /\ FGt(fabsf(last[1].I), f5_0)
    /\ agent[1].I # last[1].I
    /\ FLe(fabsf(last[1].Psi), f5_0)
    /\ agent[1].Psi = last[1].Psi

(***************************************************************************)
(* fast_tanh                                                               *)
(***************************************************************************)
\* C24: fast_tanh(x) is -1 for x < -3, 1 for x > 3 and
\* x (27 + x^2) / (27 + 9 x^2) otherwise; for every argument the result
\* lies in [-1, 1]; at x = -3 and x = 3 the rational branch yields exactly
\* -1 and 1, the values of the constant branches.
C24_TanhApproximation ==
    helper.name = "fast_tanh" =>
        LET x == helper.x
            y == helper.out
        IN  /\ FLt(x, fm3_0) => y = fm1_0
            /\ FGt(x, f3_0) => y = f1_0
            /\ (~FLt(x, fm3_0) /\ ~FGt(x, f3_0)) =>
                   y = TanhRational(x, FMul(x, x))
            /\ FLe(fm1_0, y) /\ FLe(y, f1_0)
            /\ TanhRational(fm3_0, FMul(fm3_0, fm3_0)) = fm1_0
            /\ TanhRational(f3_0, FMul(f3_0, f3_0)) = f1_0

(***************************************************************************)
(* The logistic map                                                        *)
(***************************************************************************)
\* C25: in every step, whatever Psi and Lx the run has reached, the value
\* x that Psi is mapped to lies strictly between 0 and 1, the rate r lies
\* in [3.81, 3.99], the map is iterated exactly 3 times from x with that r,
\* and chaos_kick = (x - 0.5) * 2 lies strictly between -1 and 1.
C25_ChaosInjection ==
    [][\A p \in Procs :
          evolves'[p] = evolves[p] + 1 =>
              LET x0 == LogisticSeed(agent[p].Psi)
                  r == LogisticRate(agent'[p].Lx)
                  kick == ChaosKick([agent[p] EXCEPT !.Lx = agent'[p].Lx])
              IN  /\ FLt(0, x0) /\ FLt(x0, f1_0)
                  /\ FLe(Lit(381, 100), r) /\ FLe(r, Lit(399, 100))
                  /\ kick = FMul(FSub(Logistic(r, x0, 3), f0_5), f2_0)
                  /\ FLt(fm1_0, kick) /\ FLt(kick, f1_0)]_vars

(***************************************************************************)
(* The reduction of the response                                           *)
(***************************************************************************)
\* the mean of the 100 elements of Phi
MeanPhi(Phi) == FDiv(SumPhi(Phi, 0, PHI_SIZE - 1), IntToFloat(PHI_SIZE))

\* the entropy hash, from the final agent and its phi_avg
HashOf(a, phi_avg, k) ==
    FAdd(fast_tanh(FAdd(FAdd(mix_nonlinear(a.Psi, a.I, a.R),
                             mix_nonlinear(a.Lx, a.Ly, a.Lz)),
                        mix_nonlinear(phi_avg, a.entropy, k))),
         FMul(a.entropy, f0_001))

\* C26: the Response is built after the last step only: of a call that has
\* returned, psi, i_val, r_val, lorenz_x, lorenz_y, lorenz_z are the final
\* Psi, I, R, Lx, Ly, Lz, phi_avg is the mean of the final Phi, and
\* entropy_hash is tanh_approx(mix(Psi, I, R) + mix(Lx, Ly, Lz) +
\* mix(phi_avg, entropy, k)) + entropy * 0.001; hence |psi| <= 5,
\* |i_val| <= 5, |phi_avg| <= 3, |lorenz_x|, |lorenz_y|, |lorenz_z| <= 20
\* and |entropy_hash| < 2.
C26_ResponseReduction ==
    \A p \in Procs :
        returned[p] =>
            LET a == agent[p]
                r == resp[p]
            IN  /\ ~LoopGuard(t[p], length[p], challenge[p])
                /\ r.psi = a.Psi /\ r.i_val = a.I /\ r.r_val = a.R
                /\ r.lorenz_x = a.Lx /\ r.lorenz_y = a.Ly
                /\ r.lorenz_z = a.Lz
                /\ r.phi_avg = MeanPhi(a.Phi)
                /\ r.entropy_hash = HashOf(a, r.phi_avg, secret[p].k)
                /\ FLe(fabsf(r.psi), f5_0)
                /\ FLe(fabsf(r.i_val), f5_0)
                /\ FLe(fabsf(r.phi_avg), f3_0)
                /\ FLe(fabsf(r.lorenz_x), f20_0)
                /\ FLe(fabsf(r.lorenz_y), f20_0)
                /\ FLe(fabsf(r.lorenz_z), f20_0)
                /\ FLt(fabsf(r.entropy_hash), f2_0)

(***************************************************************************)
(* The bound of R                                                          *)
(***************************************************************************)
f0_4 == Lit(4, 10)

\* R * (1 - 0.3 * (2 * 86.4 / 8) * 0.05) + 0.1 * I * Psi * 0.05
ContractedR(R, I, Psi) ==
    FAdd(FMul(R, FSub(f1_0,
                      FMul(FMul(f0_3, FDiv(FMul(f2_0, U_E), R_CHAR)),
                           DT))),
         FMul(FMul(FMul(f0_1, I), Psi), DT))

\* the two values differ by no more than the rounding of the operations
\* that yield them
Rounded(a, b) == FLe(fabsf(FSub(a, b)), 2)

\* C27: each step takes R to R * (1 - 0.3 * (2 * 86.4 / 8) * 0.05) +
\* 0.1 * I * Psi * 0.05, from an I and a Psi of magnitude at most 5, and
\* after any number of steps from R = 0.1 the magnitude of R is at most 0.4.
C27_RBounded ==
    [][\A p \in Procs :
          evolves'[p] = evolves[p] + 1 =>
              /\ FLe(fabsf(agent[p].I), f5_0)
              /\ FLe(fabsf(agent[p].Psi), f5_0)
              /\ Rounded(agent'[p].R,
                         ContractedR(agent[p].R, agent[p].I, agent[p].Psi))
              /\ FLe(fabsf(agent'[p].R), f0_4)]_vars

(***************************************************************************)
(* The zero state of the generator                                         *)
(***************************************************************************)
\* the agent that init_agent_state builds when every draw returns 0
UnseededAgent(a) ==
    /\ \A j \in 0 .. PHI_SIZE - 1 : a.Phi[j] = 0
    /\ a.Lx = f1_0 /\ a.Ly = f1_0 /\ a.Lz = f1_0

\* C28: the state of the generator after a draw is 0 if and only if it was
\* 0 before the draw.  With the seed 0 every draw returns 0: every initial
\* Phi[i] is 0, Lx = Ly = Lz = 1.0 and every seed_noise is 0; with a seed
\* other than 0 the state never becomes 0.
C28_ZeroAbsorbing ==
    /\ [][draws'[1] = draws[1] + 1 =>
             (seed_state'[1] = U32(0, 0) <=> seed_state[1] = U32(0, 0))]_vars
    /\ [](secret[1].seed = U32(0, 0) =>
             /\ seed_state[1] = U32(0, 0)
             /\ last[1].seed_noise = 0
             /\ pc[1] # "idle" =>
                   UnseededAgent(agent[1]) /\ rng_state[1] = U32(0, 0))
    /\ [](secret[1].seed # U32(0, 0) =>
             /\ seed_state[1] # U32(0, 0)
             /\ pc[1] # "idle" => rng_state[1] # U32(0, 0))

\* the generator has been called MaxDraws times from the state 0 and is
\* still at 0
C28_Witness ==
    /\ pc[1] = "idle"
    /\ secret[1].seed = U32(0, 0)
    /\ draws[1] = MaxDraws
    /\ seed_state[1] = U32(0, 0)
    /\ last[1].seed_noise = 0

(***************************************************************************)
(* The two generator streams of one invocation                             *)
(***************************************************************************)
\* the value v of the generator is the one init_agent_state(seed) drew for
\* the item m of its sequence: Phi[m] for m < 100, then Lx, Ly, Lz
DrewInInit(seed, m, v) ==
    LET init == init_agent_state(seed).agent
        unit == FAdd(f1_0, Normalise(v, f0_01))
    IN  /\ v = DrawSeq(seed, InitDraws)[m + 1]
        /\ m < PHI_SIZE => init.Phi[m] = Normalise(v, f0_1)
        /\ m = PHI_SIZE => init.Lx = unit
        /\ m = PHI_SIZE + 1 => init.Ly = unit
        /\ m = PHI_SIZE + 2 => init.Lz = unit

\* C29: the noise of the steps restarts from secret.seed: the
\* initialisation draws from a copy of its own.  For every step m < 100
\* the generator value that seed_noise is made of is the value that the
\* initial Phi[m] was made of, and the steps 100, 101 and 102 use the
\* values that Lx, Ly and Lz were made of.
C29_NoiseRestarts ==
    \A p \in Procs :
        /\ (pc[p] = "loop" /\ evolves[p] = 0) =>
               seed_state[SeedCell(p)] = secret[p].seed
        /\ (pc[p] = "loop" /\ evolves[p] > 0 /\ last[p].step < InitDraws) =>
               /\ DrewInInit(secret[p].seed, last[p].step,
                             seed_state[SeedCell(p)])
               /\ last[p].seed_noise =
                      Normalise(seed_state[SeedCell(p)], f0_1)

\* invocation 1 has made the step 102 with the value that its Lz was made
\* of: the generator of the steps stands where the initialisation left its
\* own
C29_Witness ==
    /\ pc[1] = "loop"
    /\ last[1].step = InitDraws - 1
    /\ seed_state[1] = rng_state[1]
    /\ seed_state[1] # secret[1].seed
    /\ last[1].seed_noise > 0

(***************************************************************************)
(* The client's parsing of the challenge                                   *)
(***************************************************************************)
\* C30: for every text, parse_challenge returns 0 and leaves challenge[]
\* and *length as they were if the text does not contain the marker;
\* otherwise it returns 1, has stored to at most CHALLENGE_LENGTH elements,
\* none past the end of the buffer, and reports a length between 1 and
\* CHALLENGE_LENGTH, so that the client never calls auth_compute_response
\* with the length 0.
C30_ParseChallenge ==
    /\ (helper.name = "parse_challenge" /\ helper.at = "returned") =>
           IF strstr(helper.json, Marker) = 0
           THEN /\ helper.ret = 0
                /\ helper.written = {}
                /\ helper.length = StackLength
                /\ \E v \in StackFloats :
                      helper.challenge = Constant(CHALLENGE_LENGTH, v)
           ELSE /\ helper.ret = 1
                /\ Cardinality(helper.written) <= CHALLENGE_LENGTH
                /\ helper.written \subseteq 0 .. CHALLENGE_LENGTH - 1
                /\ helper.length >= 1
                /\ helper.length <= CHALLENGE_LENGTH
    /\ (helper.name = "parse_challenge" /\ pc[1] # "idle") => length[1] # 0

=============================================================================
